---------------------------- MODULE Spec2Model ----------------------------
(***************************************************************************)
(* fastmiddle: a three-finger left click on the trackpad becomes a middle  *)
(* click.  The module models src/backend.c:                                *)
(*   - the contact tracker (touch_callback) and the event transformer      *)
(*     (mouse_callback), exercised by SpecTransformer;                     *)
(*   - the device subscription set, the topology supervisor, the           *)
(*     interception supervisor and the run controller (new_state,          *)
(*     run_click_loop, state_cleanup), exercised by Spec.                  *)
(***************************************************************************)
EXTENDS Integers, Sequences, FiniteSets, TLC

(***************************************************************************)
(* Bounds of the model.                                                    *)
(***************************************************************************)
\* largest contact count a touch frame reports
MaxFingers == 4
\* number of pointer events delivered to mouse_callback
MaxEvents == 3
\* number of distinct device handles the OS can hand out
MaxHandle == 2
\* longest device list MTDeviceCreateList returns
MaxDevices == 2

(***************************************************************************)
(* Program constants.                                                      *)
(***************************************************************************)
\* the contact count mouse_callback compares current_fingers with
GestureFingers == 3
\* the bound of the CGEventTapCreate retry loop
MaxAttempts == 300
\* the null pointer
NULL == 0

VARIABLES
    \* ---- static state of backend.c
    current_fingers,   \* static int current_fingers
    is_middle_click,   \* static bool is_middle_click of mouse_callback
    \* ---- history of the event tap
    inputs,            \* events handed to mouse_callback, in order
    outputs,           \* events mouse_callback returned, in order
    prevFlag,          \* is_middle_click when the last mouse_callback started
    lastFrame,         \* nFingers of the last touch frame
    \* ---- struct fm_state
    devices,           \* state->devices: the CFArray of MTDeviceRef
    port,              \* state->port
    tap_event,         \* state->tap_event
    run_loop_src,      \* state->run_loop_src
    \* ---- control
    pc,                \* where the main thread is
    attempt,           \* the loop variable i of listen_click_loop
    \* ---- the OS side of the handles
    registered,        \* devices with touch_callback registered
    started,           \* devices streaming frames
    released,          \* MTDeviceRelease calls per handle since it was handed out
    portObj,           \* the notification port object
    tapObj,            \* the event tap object
    srcObj,            \* the run loop source object
    liveTaps,          \* event taps created and not yet released
    \* ---- history of the lifecycle
    lastEnum,          \* what the last MTDeviceCreateList returned
    cleanups,          \* devices_cleanup calls on the current state->devices
    listenResult,      \* what the last listen_click_loop returned
    ranLoop,           \* the last listen_click_loop reached CFRunLoopRun
    stopLog,           \* the calls the last stop_click_loop made, in order
    lastOp             \* the operation that ran last

transformerVars == <<current_fingers, is_middle_click, inputs, outputs, prevFlag,
                     lastFrame>>

lifecycleVars == <<devices, port, tap_event, run_loop_src, pc, attempt,
                   registered, started, released, portObj, tapObj, srcObj,
                   liveTaps, lastEnum, cleanups, listenResult, ranLoop, stopLog>>

vars == <<current_fingers, is_middle_click, inputs, outputs, prevFlag, lastFrame,
          devices, port, tap_event, run_loop_src, pc, attempt,
          registered, started, released, portObj, tapObj, srcObj, liveTaps,
          lastEnum, cleanups, listenResult, ranLoop, stopLog, lastOp>>

(***************************************************************************)
(* Pointer events.  An event carries its type, its button number and the   *)
(* fields mouse_callback never touches (pos stands for position and        *)
(* timing); id is the identity of the event object.                        *)
(***************************************************************************)
EventTypes == {"LeftMouseDown", "LeftMouseUp", "RightMouseDown", "TapDisabledByTimeout"}

ButtonOf(type) ==
    CASE type = "LeftMouseDown"  -> "Left"
      [] type = "LeftMouseUp"    -> "Left"
      [] type = "RightMouseDown" -> "Right"
      [] OTHER                   -> "None"

Positions == {0, 1}

NewEvent(id, type, pos) ==
    [id |-> id, type |-> type, button |-> ButtonOf(type), pos |-> pos]

CGEventSetType(event, type) == [event EXCEPT !.type = type]

CGEventSetButtonNumber(event, button) == [event EXCEPT !.button = button]

(***************************************************************************)
(* mouse_callback.                                                         *)
(***************************************************************************)
PassThrough_noFlag(fingers, flag) == fingers # GestureFingers

PassThrough_inverted(fingers, flag) == fingers = GestureFingers /\ ~flag

PassThrough_atLeast(fingers, flag) == fingers < GestureFingers /\ ~flag

\* the early return: no gesture and no conversion in progress
PassThrough(fingers, flag) == fingers # GestureFingers /\ ~flag

\* the switch on the event type
ConvertEvent_guardedDown(type, event, flag) ==
    CASE type = "LeftMouseDown" /\ ~flag ->
            [event |-> CGEventSetButtonNumber(CGEventSetType(event, "OtherMouseDown"), "Center"),
             flag  |-> TRUE]
      [] type = "LeftMouseUp" ->
            [event |-> CGEventSetButtonNumber(CGEventSetType(event, "OtherMouseUp"), "Center"),
             flag  |-> FALSE]
      [] OTHER -> [event |-> event, flag |-> flag]

ConvertEvent_default(type, event, flag) ==
    CASE type = "LeftMouseDown" ->
            [event |-> CGEventSetButtonNumber(CGEventSetType(event, "OtherMouseDown"), "Center"),
             flag  |-> TRUE]
      [] type = "LeftMouseUp" ->
            [event |-> CGEventSetButtonNumber(CGEventSetType(event, "OtherMouseUp"), "Center"),
             flag  |-> FALSE]
      [] OTHER -> [event |-> event, flag |-> FALSE]

ConvertEvent(type, event, flag) ==
    CASE type = "LeftMouseDown" ->
            [event |-> CGEventSetButtonNumber(CGEventSetType(event, "OtherMouseDown"), "Center"),
             flag  |-> TRUE]
      [] type = "LeftMouseUp" ->
            [event |-> CGEventSetButtonNumber(CGEventSetType(event, "OtherMouseUp"), "Center"),
             flag  |-> FALSE]
      [] OTHER -> [event |-> event, flag |-> flag]

\* the (event, flag) pair mouse_callback leaves behind
MouseCallback(fingers, flag, type, event) ==
    IF PassThrough(fingers, flag)
    THEN [event |-> event, flag |-> flag]
    ELSE ConvertEvent(type, event, flag)

(***************************************************************************)
(* Device handles and the device subscription set.                         *)
(***************************************************************************)
Handles == 1..MaxHandle

\* a non-null pointer
ValidPtr == NULL + 1

\* the entries of a device list that are devices
Members(list) == {list[k] : k \in 1..Len(list)} \ {NULL}

\* the lists MTDeviceCreateList can return: every entry a device or NULL, no
\* device twice
DeviceLists ==
    UNION {{l \in [1..n -> Handles \cup {NULL}] :
                \A j, k \in 1..n : (j # k /\ l[j] # NULL) => l[j] # l[k]}
           : n \in 1..MaxDevices}

\* what MTDeviceCreateList can answer: no array, an empty array, or a list
MTDeviceCreateList ==
    {[isNull |-> TRUE, items |-> <<>>], [isNull |-> FALSE, items |-> <<>>]}
    \cup {[isNull |-> FALSE, items |-> l] : l \in DeviceLists}

\* multitouch_devices(): exit(1) on no array or an empty one
MultitouchDevicesExits(result) == result.isNull \/ Len(result.items) = 0

\* the OS side of the device handles, as one record
Os == [registered |-> registered, started |-> started, released |-> released]

\* the OS hands out the devices of a list: each is a fresh reference
HandOut(os, list) ==
    [os EXCEPT !.released = [h \in Handles |->
                                IF h \in Members(list) THEN 0 ELSE os.released[h]]]

RECURSIVE RegisterFrom(_, _, _)
RegisterFrom(os, list, k) ==
    IF k > Len(list) THEN os
    ELSE IF list[k] # NULL
         THEN RegisterFrom([os EXCEPT !.registered = @ \cup {list[k]},
                                      !.started = @ \cup {list[k]}], list, k + 1)
         ELSE RegisterFrom(os, list, k + 1)

DevicesRegister_skipFirst(os, list) == RegisterFrom(os, list, 2)

\* devices_register: register the callback on, and start, every device
DevicesRegister(os, list) == RegisterFrom(os, list, 1)

RECURSIVE CleanupFrom(_, _, _)
CleanupFrom(os, list, k) ==
    IF k > Len(list) THEN os
    ELSE IF list[k] # NULL
         THEN CleanupFrom([os EXCEPT !.registered = @ \ {list[k]},
                                     !.started = @ \ {list[k]},
                                     !.released[list[k]] = @ + 1], list, k + 1)
         ELSE CleanupFrom(os, list, k + 1)

DevicesCleanup_keepRegistered(os, list) ==
    [CleanupFrom(os, list, 1) EXCEPT !.registered = os.registered]

\* devices_cleanup: unregister, stop and release every device
DevicesCleanup(os, list) == CleanupFrom(os, list, 1)

\* devices_cleanup touches a device that was released already
ReleasedAgain(os, list) == \E h \in Members(list) : os.released[h] >= 1

\* the loop condition of listen_click_loop
TapRetry_offByOne(tap, i) == tap = NULL /\ i <= MaxAttempts

TapRetry(tap, i) == tap = NULL /\ i < MaxAttempts

(***************************************************************************)
(* Initial state: the statics of backend.c, and main() about to call       *)
(* new_state().                                                            *)
(***************************************************************************)
Init ==
    /\ current_fingers = 0
    /\ is_middle_click = FALSE
    /\ inputs = <<>>
    /\ outputs = <<>>
    /\ prevFlag = FALSE
    /\ lastFrame = 0
    /\ devices = <<>>
    /\ port = NULL
    /\ tap_event = NULL
    /\ run_loop_src = NULL
    /\ pc = "new_state"
    /\ attempt = 0
    /\ registered = {}
    /\ started = {}
    /\ released = [h \in Handles |-> 0]
    /\ portObj = "none"
    /\ tapObj = "none"
    /\ srcObj = "none"
    /\ liveTaps = 0
    /\ lastEnum = <<>>
    /\ cleanups = 0
    /\ listenResult = 0
    /\ ranLoop = FALSE
    /\ stopLog = <<>>
    /\ lastOp = "init"

(***************************************************************************)
(* The two callbacks.                                                      *)
(***************************************************************************)
TouchCallback_max(fingers, nFingers) ==
    IF nFingers > fingers THEN nFingers ELSE fingers

\* the value touch_callback stores in current_fingers
TouchCallback(fingers, nFingers) == nFingers

\* a device delivers a frame with nFingers contacts
touch_callback ==
    /\ \E nFingers \in 0..MaxFingers :
          /\ current_fingers' = TouchCallback(current_fingers, nFingers)
          /\ lastFrame' = nFingers
    /\ lastOp' = "touch_callback"
    /\ UNCHANGED <<is_middle_click, inputs, outputs, prevFlag>>
    /\ UNCHANGED lifecycleVars

\* the event tap delivers one pointer event
mouse_callback ==
    /\ Len(inputs) < MaxEvents
    /\ \E type \in EventTypes, pos \in Positions :
          LET event == NewEvent(Len(inputs) + 1, type, pos)
              r     == MouseCallback(current_fingers, is_middle_click, type, event)
          IN  /\ inputs' = Append(inputs, event)
              /\ outputs' = Append(outputs, r.event)
              /\ is_middle_click' = r.flag
    /\ prevFlag' = is_middle_click
    /\ lastOp' = "mouse_callback"
    /\ UNCHANGED <<current_fingers, lastFrame>>
    /\ UNCHANGED lifecycleVars

NextTransformer ==
    \/ touch_callback
    \/ mouse_callback

SpecTransformer == Init /\ [][NextTransformer]_vars

(***************************************************************************)
(* The lifecycle: new_state, run_click_loop, state_cleanup.                *)
(***************************************************************************)
SetOs(os) ==
    /\ registered' = os.registered
    /\ started' = os.started
    /\ released' = os.released

\* stop_io_notifications
StopIoNotifications ==
    /\ port' = NULL
    /\ portObj' = IF port # NULL THEN "destroyed" ELSE portObj

\* stop_click_loop: the tap is disabled and released and the pointer reset; the
\* source is removed and released whenever the pointer is set, and the pointer
\* is left as it is
StopClickLoop_leakTap ==
    /\ tap_event' = NULL
    /\ srcObj' = IF run_loop_src = NULL THEN srcObj
                 ELSE IF srcObj = "live" THEN "released" ELSE "overreleased"
    /\ stopLog' = IF run_loop_src # NULL
                  THEN <<"CFRunLoopRemoveSource", "CFRelease(run_loop_src)">>
                  ELSE <<>>
    /\ UNCHANGED <<run_loop_src, tapObj, liveTaps>>

StopClickLoop ==
    /\ tap_event' = NULL
    /\ tapObj' = IF tap_event # NULL THEN "released" ELSE tapObj
    /\ liveTaps' = IF tap_event # NULL THEN liveTaps - 1 ELSE liveTaps
    /\ srcObj' = IF run_loop_src = NULL THEN srcObj
                 ELSE IF srcObj = "live" THEN "released" ELSE "overreleased"
    /\ stopLog' = (IF tap_event # NULL
                   THEN <<"CGEventTapEnable(false)", "CFRelease(tap_event)">>
                   ELSE <<>>)
                  \o (IF run_loop_src # NULL
                      THEN <<"CFRunLoopRemoveSource", "CFRelease(run_loop_src)">>
                      ELSE <<>>)
    /\ UNCHANGED run_loop_src

\* new_state(): the first enumeration
new_state ==
    /\ pc = "new_state"
    /\ \E result \in MTDeviceCreateList :
          IF MultitouchDevicesExits(result)
          THEN /\ pc' = "exited"
               /\ UNCHANGED <<devices, lastEnum, registered, started, released>>
          ELSE /\ pc' = "run_click_loop"
               /\ devices' = result.items
               /\ lastEnum' = result.items
               /\ SetOs(HandOut(Os, result.items))
    /\ cleanups' = 0
    /\ lastOp' = "new_state"
    /\ UNCHANGED <<port, tap_event, run_loop_src, attempt, portObj, tapObj, srcObj,
                   liveTaps, listenResult, ranLoop, stopLog>>
    /\ UNCHANGED transformerVars

\* run_click_loop up to its for loop: subscribe, then listen_io_notification
run_click_loop ==
    /\ pc = "run_click_loop"
    /\ \E kres \in {"KERN_SUCCESS", "KERN_FAILURE"} :
          IF kres = "KERN_SUCCESS"
          THEN /\ SetOs(DevicesRegister(Os, devices))
               /\ port' = ValidPtr
               /\ portObj' = "live"
               /\ pc' = "acquire"
               /\ UNCHANGED cleanups
          ELSE /\ SetOs(DevicesCleanup(DevicesRegister(Os, devices), devices))
               /\ port' = NULL
               /\ portObj' = "destroyed"
               /\ pc' = "returned"
               /\ cleanups' = cleanups + 1
    /\ attempt' = 0
    /\ ranLoop' = FALSE
    /\ lastOp' = "run_click_loop"
    /\ UNCHANGED <<devices, tap_event, run_loop_src, tapObj, srcObj, liveTaps,
                   lastEnum, listenResult, stopLog>>
    /\ UNCHANGED transformerVars

\* one iteration of the retry loop of listen_click_loop
tap_create ==
    /\ pc = "acquire"
    /\ TapRetry(tap_event, attempt)
    /\ \E created \in BOOLEAN :
          /\ tap_event' = IF created THEN ValidPtr ELSE NULL
          /\ tapObj' = IF created THEN "created" ELSE tapObj
          /\ liveTaps' = IF created THEN liveTaps + 1 ELSE liveTaps
    /\ attempt' = attempt + 1
    /\ lastOp' = "tap_create"
    /\ UNCHANGED <<devices, port, run_loop_src, pc, registered, started, released,
                   portObj, srcObj, lastEnum, cleanups, listenResult,
                   ranLoop, stopLog>>
    /\ UNCHANGED transformerVars

ListenFailed_keepPort ==
    /\ listenResult' = 1
    /\ SetOs(DevicesCleanup(Os, devices))
    /\ cleanups' = cleanups + 1
    /\ pc' = "returned"
    /\ UNCHANGED <<tap_event, tapObj, ranLoop, port, portObj>>

\* listen_click_loop returns 1 and run_click_loop tears down and returns
ListenFailed ==
    /\ listenResult' = 1
    /\ SetOs(DevicesCleanup(Os, devices))
    /\ cleanups' = cleanups + 1
    /\ StopIoNotifications
    /\ pc' = "returned"
    /\ UNCHANGED <<tap_event, tapObj, ranLoop>>

\* listen_click_loop after its retry loop, up to CFRunLoopRun.  Once a tap exists
\* the loop variable i is never read again and is dropped; when every attempt
\* failed it keeps the number of attempts that were made.
listen_click_loop ==
    /\ pc = "acquire"
    /\ ~TapRetry(tap_event, attempt)
    /\ IF tap_event = NULL
       THEN /\ ListenFailed
            /\ UNCHANGED <<run_loop_src, srcObj, attempt>>
       ELSE \E src \in {NULL, ValidPtr} :
               /\ run_loop_src' = src
               /\ attempt' = 0
               /\ IF src = NULL
                  THEN /\ ListenFailed
                       /\ UNCHANGED srcObj
                  ELSE /\ srcObj' = "live"
                       /\ tapObj' = "enabled"
                       /\ ranLoop' = TRUE
                       /\ pc' = "active"
                       /\ UNCHANGED <<tap_event, port, portObj, registered, started,
                                      released, cleanups, listenResult>>
    /\ lastOp' = "listen_click_loop"
    /\ UNCHANGED <<devices, lastEnum, liveTaps, stopLog>>
    /\ UNCHANGED transformerVars

\* device_notification_callback: devices_refresh while the run loop runs
device_notification_callback ==
    /\ pc = "active"
    /\ portObj = "live"
    /\ \E result \in MTDeviceCreateList :
          LET cleaned == DevicesCleanup(Os, devices)
          IN  IF MultitouchDevicesExits(result)
              THEN /\ SetOs(cleaned)
                   /\ cleanups' = cleanups + 1
                   /\ pc' = "exited"
                   /\ UNCHANGED <<devices, lastEnum>>
              ELSE /\ devices' = result.items
                   /\ lastEnum' = result.items
                   /\ SetOs(DevicesRegister(HandOut(cleaned, result.items),
                                            result.items))
                   /\ cleanups' = 0
                   /\ UNCHANGED pc
    /\ lastOp' = "devices_refresh"
    /\ UNCHANGED <<port, tap_event, run_loop_src, attempt, portObj, tapObj, srcObj,
                   liveTaps, listenResult, ranLoop, stopLog>>
    /\ UNCHANGED transformerVars

run_loop_returns_breaks ==
    /\ pc = "active"
    /\ StopClickLoop
    /\ listenResult' = 0
    /\ attempt' = 0
    /\ ranLoop' = FALSE
    /\ pc' = "returned"
    /\ lastOp' = "run_loop_returns"
    /\ UNCHANGED <<devices, port, registered, started, released, portObj,
                   lastEnum, cleanups>>
    /\ UNCHANGED transformerVars

\* CFRunLoopRun returns: stop_click_loop, return 0, and the for loop of
\* run_click_loop calls listen_click_loop again
run_loop_returns ==
    /\ pc = "active"
    /\ StopClickLoop
    /\ listenResult' = 0
    /\ attempt' = 0
    /\ ranLoop' = FALSE
    /\ pc' = "acquire"
    /\ lastOp' = "run_loop_returns"
    /\ UNCHANGED <<devices, port, registered, started, released, portObj,
                   lastEnum, cleanups>>
    /\ UNCHANGED transformerVars

\* state_cleanup(), called once run_click_loop has returned.  Touching a released
\* device or run loop source is undefined: the call may return or crash.
state_cleanup ==
    /\ pc = "returned"
    /\ StopIoNotifications
    /\ StopClickLoop
    /\ SetOs(DevicesCleanup(Os, devices))
    /\ cleanups' = cleanups + 1
    /\ IF ReleasedAgain(Os, devices) \/ (run_loop_src # NULL /\ srcObj # "live")
       THEN pc' \in {"done", "crashed"}
       ELSE pc' = "done"
    /\ lastOp' = "state_cleanup"
    /\ UNCHANGED <<devices, attempt, lastEnum, listenResult, ranLoop>>
    /\ UNCHANGED transformerVars

Next ==
    \/ new_state
    \/ run_click_loop
    \/ tap_create
    \/ listen_click_loop
    \/ device_notification_callback
    \/ run_loop_returns
    \/ state_cleanup

Spec == Init /\ [][Next]_vars

\* the main thread keeps running: a step of it that can be taken is taken
SpecFair ==
    /\ Init /\ [][Next]_vars
    /\ WF_vars(tap_create)
    /\ WF_vars(listen_click_loop)
    /\ WF_vars(state_cleanup)


(***************************************************************************)
(* Vocabulary of the claims about the event transformer.                   *)
(***************************************************************************)
LastIn == inputs[Len(inputs)]

LastOut == outputs[Len(outputs)]

\* the state right after mouse_callback handled an event
AfterMouse == lastOp = "mouse_callback" /\ Len(inputs) >= 1 /\ Len(outputs) = Len(inputs)

\* out is the event in with only its type and button rewritten to the centre button
IsSecondary(in, out, type) ==
    out = [id |-> in.id, type |-> type, button |-> "Center", pos |-> in.pos]

\* C1 as stated: a primary down with the flag false and ANY contact count >= 3 is
\* rewritten to a secondary down and sets the flag.
C1_DownConvertedAtLeast3 ==
    (AfterMouse /\ LastIn.type = "LeftMouseDown" /\ ~prevFlag
        /\ current_fingers >= GestureFingers)
    => (IsSecondary(LastIn, LastOut, "OtherMouseDown") /\ is_middle_click)

\* C1 amended: a primary down with the flag false is rewritten to a secondary down
\* (and sets the flag) when the contact count is exactly 3; with a contact count
\* above 3 it is returned unmodified and the flag stays false.
C1_DownConvertedExactly3 ==
    (AfterMouse /\ LastIn.type = "LeftMouseDown" /\ ~prevFlag)
    => /\ current_fingers = GestureFingers
            => (IsSecondary(LastIn, LastOut, "OtherMouseDown") /\ is_middle_click)
       /\ current_fingers > GestureFingers
            => (LastOut = LastIn /\ ~is_middle_click)

C1_Witness ==
    /\ AfterMouse /\ LastIn.type = "LeftMouseDown" /\ ~prevFlag
    /\ current_fingers = GestureFingers
    /\ LastOut.type = "OtherMouseDown" /\ is_middle_click

\* C2: a primary up with the flag false is returned unmodified and the flag stays
\* false, for every contact count (3 included).
C2_UpUnconvertedPasses ==
    (AfterMouse /\ LastIn.type = "LeftMouseUp" /\ ~prevFlag)
    => (LastOut = LastIn /\ ~is_middle_click)

\* C3: a primary up with the flag true is rewritten to a secondary up and clears
\* the flag, for every contact count; a converted down directly followed by an up
\* gives a converted up, whatever frames came in between.
C3_UpConvertedWhenFlag ==
    /\ (AfterMouse /\ LastIn.type = "LeftMouseUp" /\ prevFlag)
        => (IsSecondary(LastIn, LastOut, "OtherMouseUp") /\ ~is_middle_click)
    /\ \A k \in 1..(Len(outputs) - 1) :
          (IsSecondary(inputs[k], outputs[k], "OtherMouseDown")
              /\ inputs[k + 1].type = "LeftMouseUp")
          => IsSecondary(inputs[k + 1], outputs[k + 1], "OtherMouseUp")

\* frame(3), down, frame(0), up: the fingers are gone when the up arrives
C3_Witness ==
    /\ AfterMouse /\ Len(inputs) = 2 /\ prevFlag /\ current_fingers = 0
    /\ inputs[1].type = "LeftMouseDown" /\ inputs[2].type = "LeftMouseUp"
    /\ outputs[1].type = "OtherMouseDown" /\ outputs[2].type = "OtherMouseUp"
    /\ ~is_middle_click

\* C4: a primary down with the flag false and a contact count below 3 is returned
\* unmodified and leaves the flag false; the up that follows an unmodified down
\* while the count is still below 3 is returned unmodified too.
C4_BelowThreePasses ==
    /\ (AfterMouse /\ LastIn.type = "LeftMouseDown" /\ ~prevFlag
            /\ current_fingers < GestureFingers)
        => (LastOut = LastIn /\ ~is_middle_click)
    /\ (AfterMouse /\ Len(inputs) >= 2 /\ LastIn.type = "LeftMouseUp"
            /\ inputs[Len(inputs) - 1].type = "LeftMouseDown"
            /\ outputs[Len(inputs) - 1] = inputs[Len(inputs) - 1]
            /\ current_fingers < GestureFingers)
        => (LastOut = LastIn /\ ~is_middle_click)

\* frame(1), down, up
C4_Witness ==
    /\ AfterMouse /\ Len(inputs) = 2 /\ current_fingers = 1
    /\ inputs[1].type = "LeftMouseDown" /\ inputs[2].type = "LeftMouseUp"
    /\ outputs = inputs /\ ~is_middle_click

\* C5 as stated: a primary down arriving while the flag is already true is passed
\* through untouched and the flag is left unchanged.
C5_DownWhileFlagPasses ==
    (AfterMouse /\ LastIn.type = "LeftMouseDown" /\ prevFlag)
    => (LastOut = LastIn /\ is_middle_click = prevFlag)

\* C5 amended: a primary down arriving while the flag is already true is rewritten
\* to a secondary down, for every contact count, and the flag stays true.
C5_DownWhileFlagConverted ==
    (AfterMouse /\ LastIn.type = "LeftMouseDown" /\ prevFlag)
    => (IsSecondary(LastIn, LastOut, "OtherMouseDown") /\ is_middle_click)

C5_Witness ==
    /\ AfterMouse /\ LastIn.type = "LeftMouseDown" /\ prevFlag
    /\ current_fingers # GestureFingers
    /\ LastOut.type = "OtherMouseDown"

\* C6: one output per input, in the same order, each the input event unmodified or
\* with only its type and button rewritten; an event that is neither a primary down
\* nor a primary up is returned unmodified and leaves the flag unchanged.
C6_OneOutputPerInput ==
    /\ Len(outputs) = Len(inputs)
    /\ \A k \in 1..Len(inputs) :
          /\ outputs[k].id = inputs[k].id
          /\ outputs[k].pos = inputs[k].pos
          /\ \/ outputs[k] = inputs[k]
             \/ inputs[k].type = "LeftMouseDown"
                   /\ IsSecondary(inputs[k], outputs[k], "OtherMouseDown")
             \/ inputs[k].type = "LeftMouseUp"
                   /\ IsSecondary(inputs[k], outputs[k], "OtherMouseUp")
          /\ inputs[k].type \notin {"LeftMouseDown", "LeftMouseUp"}
                => outputs[k] = inputs[k]
    /\ (AfterMouse /\ LastIn.type \notin {"LeftMouseDown", "LeftMouseUp"})
        => is_middle_click = prevFlag

\* another event arrives in the middle of a converted click, three fingers down
C6_Witness ==
    /\ AfterMouse /\ Len(inputs) = 2
    /\ LastIn.type = "RightMouseDown" /\ LastOut = LastIn
    /\ outputs[1].type = "OtherMouseDown"
    /\ prevFlag /\ is_middle_click /\ current_fingers = GestureFingers


(***************************************************************************)
(* Claims about the device subscription set and the interception           *)
(* supervisor.                                                             *)
(***************************************************************************)
\* C7: devices_cleanup called a second time on the same set releases (unregisters,
\* stops) no device handle a second time.
C7_CleanupIdempotent ==
    cleanups >= 2 => \A h \in Members(devices) : released[h] <= 1

\* C8: a completed devices_refresh leaves the set equal to the fresh enumeration,
\* the frame callback registered on every member of the new set, and no callback
\* registered on a handle of the old set that is absent from the new one.
C8_RefreshReplacesSet ==
    [][(lastOp' = "devices_refresh" /\ pc' = "active")
        => /\ devices' = lastEnum'
           /\ Members(devices') \subseteq registered'
           /\ Members(devices') \subseteq started'
           /\ (Members(devices) \ Members(devices')) \cap registered' = {}]_vars

\* a refresh dropped a device: it was released once and is no longer registered
C8_Witness ==
    /\ lastOp = "devices_refresh" /\ pc = "active"
    /\ devices = lastEnum /\ Members(devices) # {}
    /\ Members(devices) \subseteq registered
    /\ \E h \in Handles \ Members(devices) : released[h] = 1 /\ h \notin registered

\* C9: when every attempt to create the tap fails, listen_click_loop makes exactly
\* MaxAttempts attempts, then returns non-zero, and never enters the dispatch loop.
C9_ExactlyMaxAttempts ==
    /\ (pc = "acquire" /\ tap_event = NULL) => attempt <= MaxAttempts
    /\ (pc = "returned" /\ lastOp = "listen_click_loop" /\ tap_event = NULL)
        => (attempt = MaxAttempts /\ listenResult = 1 /\ ~ranLoop)
    /\ pc = "active" => tap_event # NULL

C9_Witness ==
    /\ pc = "returned" /\ lastOp = "listen_click_loop" /\ tap_event = NULL
    /\ attempt = MaxAttempts /\ listenResult = 1 /\ ~ranLoop

\* C10: over new_state -> run_click_loop -> state_cleanup no device handle is
\* unregistered/released twice, and none is left registered at the end.
C10_TeardownOncePerSubscribe ==
    /\ \A h \in Handles : released[h] <= 1
    /\ pc = "done" => registered = {}

(***************************************************************************)
(* Claims about teardown, the interception supervisor and the run          *)
(* controller.                                                             *)
(***************************************************************************)
\* C11: when the process exits on a fatal condition, everything that was set up
\* has been torn down: the notification port is destroyed, the event tap is
\* disabled and released, and no frame callback is registered.
C11_TeardownBeforeExit ==
    pc = "exited"
    => /\ portObj # "live"
       /\ tapObj \notin {"created", "enabled"}
       /\ liveTaps = 0
       /\ registered = {}

\* C12: when the tap exists and creating the run loop source fails, the tap has
\* been released (state->tap_event reset), the devices unsubscribed and the port
\* destroyed by the time run_click_loop returns.
C12_SourceFailureTearsDown ==
    [][(pc = "acquire" /\ tap_event # NULL /\ pc' = "returned")
        => /\ tap_event' = NULL
           /\ liveTaps' = 0
           /\ registered' = {}
           /\ portObj' = "destroyed"]_vars

\* C13: at most one event tap is live at any time, and a tap is live exactly while
\* state->tap_event is set: a new one is created only after the previous one was
\* released and the pointer reset.
C13_AtMostOneTap ==
    /\ liveTaps <= 1
    /\ (liveTaps = 1) <=> (tap_event # NULL)

\* a tap created in a later cycle, after the tap of an earlier cycle was released
C13_Witness ==
    /\ lastOp = "tap_create" /\ tap_event # NULL /\ liveTaps = 1
    /\ srcObj = "released" /\ stopLog # <<>>

\* position of a call in the log of stop_click_loop, 0 when it was not made
IndexOf(log, call) ==
    IF \E k \in 1..Len(log) : log[k] = call
    THEN CHOOSE k \in 1..Len(log) : log[k] = call
    ELSE 0

\* C14: when the dispatch loop has returned, stop_click_loop has disabled the tap,
\* removed the run loop source and released the tap, in that order, before the
\* next acquisition.
C14_TeardownOrder ==
    lastOp = "run_loop_returns"
    => /\ pc = "acquire" /\ attempt = 0
       /\ IndexOf(stopLog, "CGEventTapEnable(false)") >= 1
       /\ IndexOf(stopLog, "CGEventTapEnable(false)")
            < IndexOf(stopLog, "CFRunLoopRemoveSource")
       /\ IndexOf(stopLog, "CFRunLoopRemoveSource")
            < IndexOf(stopLog, "CFRelease(tap_event)")

\* C15: once listen_click_loop has reported failure, run_click_loop has returned
\* with the port destroyed, state->port null and no frame callback registered, and
\* no acquisition is attempted again.
C15_FatalStopsEverything ==
    [][(pc = "returned" /\ listenResult = 1)
        => /\ port = NULL /\ portObj = "destroyed"
           /\ registered = {} /\ started = {}
           /\ pc' \in {"done", "crashed"}
           /\ attempt' = attempt
           /\ liveTaps' <= liveTaps]_vars

\* retries exhausted in a later cycle, with a device that had been subscribed
C15_Witness ==
    /\ pc = "done" /\ listenResult = 1 /\ attempt = MaxAttempts
    /\ port = NULL /\ portObj = "destroyed" /\ registered = {}
    /\ Members(devices) # {} /\ stopLog # <<>>

\* C16: after the dispatch loop returns, a new acquisition is started from scratch
\* (i = 0, no tap) and its first attempt is eventually made; run_click_loop returns
\* only after listen_io_notification failed or listen_click_loop returned non-zero.
C16_ReacquiresAfterLoopExit ==
    /\ [](lastOp = "run_loop_returns"
            => (pc = "acquire" /\ attempt = 0 /\ tap_event = NULL))
    /\ [](pc = "returned"
            => \/ lastOp = "run_click_loop" /\ portObj = "destroyed"
               \/ lastOp = "listen_click_loop" /\ listenResult = 1)
    /\ ((lastOp = "run_loop_returns") ~> (lastOp = "tap_create" /\ attempt = 1))

\* the first attempt of the acquisition that follows a dispatch cycle
C16_Witness ==
    /\ pc = "acquire" /\ lastOp = "tap_create" /\ attempt = 1
    /\ listenResult = 0 /\ tapObj = "released" /\ tap_event = NULL

\* C20: the run loop source is removed and released at most once per creation.
C20_SourceReleasedOnce ==
    srcObj # "overreleased"

(***************************************************************************)
(* Claims about the contact count and the flag under interleaving.         *)
(***************************************************************************)
\* C17: the contact count the transformer reads is the count of the most recent
\* touch frame (0 before any frame); pointer events never change it.
C17_LastWriteWins ==
    current_fingers = lastFrame

\* a pointer event handled after several frames
C17_Witness ==
    /\ AfterMouse /\ Len(inputs) = 2
    /\ current_fingers = 1 /\ lastFrame = 1
    /\ outputs[1].type = "OtherMouseDown"

\* a converted down was emitted and no converted up after it
ConversionOpen(out) ==
    \E k \in 1..Len(out) :
        /\ out[k].type = "OtherMouseDown"
        /\ \A j \in (k + 1)..Len(out) : out[j].type # "OtherMouseUp"

\* C18: the flag is true exactly when a converted down has been emitted and no
\* converted up since; it starts false and only a pointer event changes it.
C18_FlagTracksConversion ==
    is_middle_click <=> ConversionOpen(outputs)

\* frames arrive in the middle of a converted click and the flag stays set
C18_Witness ==
    /\ lastOp = "touch_callback" /\ current_fingers = 0
    /\ is_middle_click /\ Len(outputs) = 2
    /\ outputs[1].type = "OtherMouseDown" /\ outputs[2].type = "RightMouseDown"

\* primary downs and ups alternate, starting with a down
WellFormedInput(in) ==
    \A k \in 1..Len(in) :
        in[k].type = (IF k % 2 = 1 THEN "LeftMouseDown" ELSE "LeftMouseUp")

\* every emitted down is followed by an up of the same button
WellFormedOutput(out) ==
    \A k \in 1..Len(out) :
        k % 2 = 1
        => /\ out[k].type \in {"LeftMouseDown", "OtherMouseDown"}
           /\ k + 1 <= Len(out)
                => /\ out[k + 1].button = out[k].button
                   /\ out[k + 1].type = (IF out[k].type = "LeftMouseDown"
                                         THEN "LeftMouseUp" ELSE "OtherMouseUp")

\* C19: a well-formed input stream gives an output stream that is well-formed per
\* button, whatever frames arrive in between.
C19_OutputWellFormed ==
    WellFormedInput(inputs) => WellFormedOutput(outputs)

=============================================================================
